---- MODULE Spec2Model ----
(***************************************************************************)
(* Office seating planner (rihal-hackathon).                               *)
(*                                                                         *)
(* src/main.py  : FastAPI service; /upload stores the roster, calls        *)
(*                solve_seating(), copies seating_plan.csv to processed/.  *)
(* src/app.py   : Streamlit front end with its own solve_seating(df, ...). *)
(*                                                                         *)
(* Specifications: Spec is one call of solve_seating (either file),        *)
(* SpecLive the same for main.py with fairness, SpecRepeat two calls on    *)
(* one roster, SpecUpload the /upload handler as one step, SpecService     *)
(* the service with requests in flight on its single event loop,           *)
(* SpecVisualize one call of main.py followed by GET /visualize.           *)
(*                                                                         *)
(* Both solve_seating functions build the same CP-SAT model.  The solver   *)
(* is modelled by what its contract allows: status OPTIMAL with a solution *)
(* of maximal objective, status FEASIBLE with any solution satisfying the  *)
(* constraints, or status UNKNOWN (time limit, no solution).               *)
(*                                                                         *)
(* Encodings: a floor id is a positive integer (the keys of FLOORS), the   *)
(* literal 'Offsite' is the integer Offsite, Python's None / pandas' NaN   *)
(* in a numeric cell is the integer None; a missing department is NaN.     *)
(* max_dept_percent is kept in tenths (0.6 is 6, 1.0 is 10).               *)
(***************************************************************************)
EXTENDS Integers, Sequences, FiniteSets, TLC

\* ---------------------------------------------------------------- bounds
MaxId == 3          \* employee ids are 1..MaxId
MaxEmp == 3         \* rows in a roster
MaxCells == 9       \* rows of the roster times placements (seats + Offsite)
MaxInput == 4       \* /upload requests plus roster rows received in one run

\* ------------------------------------------------------ program constants
MAX_DEPT_PERCENT == 6     \* 0.6, in tenths
SEATS_PER_TABLE == 6
Offsite == 0
None == -1
NaN == "NaN"

\* ------------------------------------------------------------ input sets
Depts == {"A", "B"}
DeptOrder == <<"A", "B">>
Ids == 1..MaxId
\* max_dept_percent: the default 0.6 and 1.0.
Percents == {MAX_DEPT_PERCENT, 10}
\* FLOORS maps floor id to seats; <<2, 1>> is {1: 2, 2: 1}.  The floor sets
\* are small stand-ins for main.py's {1: 50, 2: 48}: none, one floor, two
\* equal floors, two unequal floors, one floor with more than one table.
FloorConfigs == {<< >>, <<2>>, <<1, 1>>, <<2, 1>>, <<7>>}

CsvRows == [ID : Ids, Department : Depts \cup {""}]
\* Roster files of up to MaxEmp rows, listed by ascending id; an id may
\* repeat and a department may be empty.
RosterFiles ==
    {r \in UNION {[1..n -> CsvRows] : n \in 0..MaxEmp} :
        \A i \in 1..(Len(r) - 1) : r[i].ID <= r[i + 1].ID}

\* --------------------------------------------------------------- helpers
RECURSIVE SumSeq(_)
SumSeq(s) == IF s = << >> THEN 0 ELSE Head(s) + SumSeq(Tail(s))

Range(s) == {s[i] : i \in DOMAIN s}

TotalSeats(fl) == SumSeq(fl)

\* pd.read_csv on the roster: an empty Department cell is read as NaN.
ReadRoster(file) ==
    [i \in 1..Len(file) |->
        [ID |-> file[i].ID,
         Department |-> IF file[i].Department = "" THEN NaN
                        ELSE file[i].Department]]

\* random.seed(42); random.shuffle(l): the permutation CPython's Mersenne
\* Twister yields for a list of length n (result[i] = l[perm[i]]).
ShufflePerm(n) ==
    CASE n = 0 -> << >>
      [] n = 1 -> <<1>>
      [] n = 2 -> <<2, 1>>
      [] n = 3 -> <<2, 1, 3>>
      [] n = 4 -> <<3, 2, 4, 1>>
      [] n = 5 -> <<4, 2, 3, 5, 1>>

Shuffle(l) == [i \in 1..Len(l) |-> l[ShufflePerm(Len(l))[i]]]

IdColumn(d) == [i \in 1..Len(d) |-> d[i].ID]

\* df.groupby('Department')['ID'].apply(list).to_dict(): NaN keys are
\* dropped, members keep the order of df.
RECURSIVE MembersOf(_, _)
MembersOf(d, dept) ==
    IF d = << >> THEN << >>
    ELSE IF Head(d).Department = dept
         THEN <<Head(d).ID>> \o MembersOf(Tail(d), dept)
         ELSE MembersOf(Tail(d), dept)

GroupByDepartment(d) ==
    [dept \in {d[i].Department : i \in DOMAIN d} \ {NaN} |-> MembersOf(d, dept)]

\* df.loc[df['ID'] == e, 'Department'].values[0]
DepartmentOf(d, e) ==
    d[CHOOSE i \in DOMAIN d :
        d[i].ID = e /\ \A j \in DOMAIN d : d[j].ID = e => i <= j].Department

\* -------------------------------------------------------------- CP model
\* Values of the variables of one (employee, floor) pair:
\* emp_floor[(e,f)], emp_seat[(e,f)] and emp_seat_bool[(e,f,seat)].
FloorVarDomain(cap) ==
    [emp_floor : {0, 1}, emp_seat : 0..cap, emp_seat_bool : [1..cap -> {0, 1}]]

\* Variant: the seat indicators are summed without their seat numbers.
SeatLinkUnweighted(t, cap) ==
    t.emp_seat = SumSeq([seat \in 1..cap |-> t.emp_seat_bool[seat]])

\* model.Add(emp_seat[(e, f)] == sum(seat * emp_seat_bool[(e, f, seat)] ...))
SeatLink(t, cap) ==
    t.emp_seat = SumSeq([seat \in 1..cap |-> seat * t.emp_seat_bool[seat]])

\* Variant: the seat indicators are not tied to emp_floor.
SeatCountDropped(t, cap) == TRUE

\* model.Add(sum(emp_seat_bool[(e, f, seat)] ...) == emp_floor[(e, f)])
SeatCount(t, cap) ==
    SumSeq([seat \in 1..cap |-> t.emp_seat_bool[seat]]) = t.emp_floor

FloorVals(cap) ==
    {t \in FloorVarDomain(cap) : SeatLink(t, cap) /\ SeatCount(t, cap)}

\* Number of floors employee value v is on: sum(emp_floor[(e, f)] for f in FLOORS)
FloorSum(v) == SumSeq([f \in DOMAIN v.fl |-> v.fl[f].emp_floor])

\* Variant: the placement sum is only bounded by 1 (<= written for ==).
ExactlyOnePlaceAtMost(v) == FloorSum(v) + v.emp_offsite <= 1

\* model.Add(sum(emp_floor[(e, f)] for f in FLOORS) + emp_offsite[e] == 1)
ExactlyOnePlace(v) == FloorSum(v) + v.emp_offsite = 1

\* Variant: the indicator is tied to emp_offsite instead of the floor sum.
OnSiteIndicatorOffsite(v) == v.on_site = v.emp_offsite

\* model.Add(on_site[e] == sum(emp_floor[(e, f)] for f in FLOORS))
OnSiteIndicator(v) == v.on_site = FloorSum(v)

\* Values of all variables of one employee that satisfy the constraints
\* mentioning this employee only.
EmpVals(fls) ==
    LET perFloor == [f \in DOMAIN fls |-> FloorVals(fls[f])]
        all == UNION {perFloor[f] : f \in DOMAIN fls}
        flSet == {g \in [DOMAIN fls -> all] :
                     \A f \in DOMAIN fls : g[f] \in perFloor[f]}
    IN {v \in [fl : flSet, emp_offsite : {0, 1}, on_site : {0, 1}] :
           ExactlyOnePlace(v) /\ OnSiteIndicator(v)}

\* model.Add(sum(emp_floor[(e, f)] for e in employees) <= cap)
FloorCapacity(sol, emps, f, cap) ==
    SumSeq([i \in DOMAIN emps |-> sol[emps[i]].fl[f].emp_floor]) <= cap

\* Variant: the AddAtMostOne loop is missing.
SeatExclusiveDropped(sol, emps, f, seat) == TRUE

\* model.AddAtMostOne(emp_seat_bool[(e, f, seat)] for e in employees)
SeatExclusive(sol, emps, f, seat) ==
    SumSeq([i \in DOMAIN emps |-> sol[emps[i]].fl[f].emp_seat_bool[seat]]) <= 1

\* Variant: round() written for int().
MaxOnSiteRounded(pct, n) == (pct * n + 5) \div 10

\* max_on_site = int(MAX_DEPT_PERCENT * len(members)), percent in tenths
MaxOnSite(pct, n) == (pct * n) \div 10

\* Variant: the department bound is written as a minimum (>= for <=).
DeptCapAtLeast(sol, members, pct) ==
    SumSeq([i \in DOMAIN members |-> FloorSum(sol[members[i]])])
        >= MaxOnSite(pct, Len(members))

\* model.Add(sum(emp_floor[(e, f)] for e in members for f in FLOORS) <= max_on_site)
DeptCap(sol, members, pct) ==
    SumSeq([i \in DOMAIN members |-> FloorSum(sol[members[i]])])
        <= MaxOnSite(pct, Len(members))

\* Variant: the right-hand side does not depend on the floor (m on any floor).
CohesionAnyFloor(sol, members, f) ==
    \A i \in DOMAIN members : \A j \in DOMAIN members :
        members[i] # members[j] =>
            sol[members[i]].fl[f].emp_floor
                <= sol[members[j]].emp_offsite + FloorSum(sol[members[j]])

\* model.Add(emp_floor[(e, f)] <= emp_offsite[m] + emp_floor[(m, f)]) for m != e
Cohesion(sol, members, f) ==
    \A i \in DOMAIN members : \A j \in DOMAIN members :
        members[i] # members[j] =>
            sol[members[i]].fl[f].emp_floor
                <= sol[members[j]].emp_offsite + sol[members[j]].fl[f].emp_floor

Satisfies(sol, emps, depts, fls, pct) ==
    /\ \A f \in DOMAIN fls : FloorCapacity(sol, emps, f, fls[f])
    /\ \A f \in DOMAIN fls : \A seat \in 1..fls[f] : SeatExclusive(sol, emps, f, seat)
    /\ \A d \in DOMAIN depts : DeptCap(sol, depts[d], pct)
    /\ \A d \in DOMAIN depts : \A f \in DOMAIN fls : Cohesion(sol, depts[d], f)

\* All assignments of the model's variables that satisfy every constraint.
Solutions(emps, depts, fls, pct) ==
    LET vals == EmpVals(fls)
    IN {sol \in [Range(emps) -> vals] : Satisfies(sol, emps, depts, fls, pct)}

\* Variant: model.Minimize written for model.Maximize.
ObjectiveMinimized(sol, emps) ==
    0 - (SumSeq([i \in DOMAIN emps |-> sol[emps[i]].on_site]) * 1000
            + SumSeq([i \in DOMAIN emps |-> FloorSum(sol[emps[i]])]))

\* model.Maximize(sum(on_site) * 1000 + sum(emp_floor))
Objective(sol, emps) ==
    SumSeq([i \in DOMAIN emps |-> sol[emps[i]].on_site]) * 1000
        + SumSeq([i \in DOMAIN emps |-> FloorSum(sol[emps[i]])])

\* solver.Solve(model) under max_time_in_seconds: the (status, values) pairs
\* CP-SAT may return.
SolverOutcomes(emps, depts, fls, pct) ==
    LET S == Solutions(emps, depts, fls, pct)
        best == {s \in S : \A o \in S : Objective(o, emps) <= Objective(s, emps)}
    IN {[status |-> "OPTIMAL", solution |-> s] : s \in best}
       \cup {[status |-> "FEASIBLE", solution |-> s] : s \in S}
       \cup {[status |-> "UNKNOWN", solution |-> << >>]}
       \cup (IF S = {} THEN {[status |-> "INFEASIBLE", solution |-> << >>]} ELSE {})

\* ---------------------------------------------------------------- decode
Solved(st) == st \in {"OPTIMAL", "FEASIBLE"}

\* Variant: the loop takes the first floor of FLOORS without testing emp_floor.
FirstFloorUntested(v) == IF DOMAIN v.fl = {} THEN None ELSE 1

\* for f in FLOORS: if solver.Value(emp_floor[(e, f)]) == 1: ... break
FirstFloor(v) ==
    IF \E f \in DOMAIN v.fl : v.fl[f].emp_floor = 1
    THEN CHOOSE f \in DOMAIN v.fl :
             /\ v.fl[f].emp_floor = 1
             /\ \A g \in DOMAIN v.fl : v.fl[g].emp_floor = 1 => f <= g
    ELSE None

\* Variant: the seat number is not shifted to 0-based before the division.
TableOfUnshifted(seat_num) == (seat_num \div SEATS_PER_TABLE) + 1

\* assigned_table = ((seat_num - 1) // SEATS_PER_TABLE) + 1
TableOf(seat_num) == ((seat_num - 1) \div SEATS_PER_TABLE) + 1

\* One entry of seating_plan in main.py (lines 190-213).
MainRow(e, v, d) ==
    LET f == IF v.emp_offsite = 1 THEN None ELSE FirstFloor(v)
    IN [ID |-> e,
        Department |-> DepartmentOf(d, e),
        Assigned_Floor |-> IF v.emp_offsite = 1 THEN Offsite ELSE f,
        Assigned_Table |-> IF f = None THEN None ELSE TableOf(v.fl[f].emp_seat),
        Assigned_Seat |-> IF f = None THEN None ELSE v.fl[f].emp_seat]

\* Variant: the offsite test reads == 0.
AppRowOffsiteInverted(e, v, d) ==
    LET f == IF v.emp_offsite = 0 THEN None ELSE FirstFloor(v)
    IN [ID |-> e,
        Department |-> DepartmentOf(d, e),
        Assigned_Floor |-> IF v.emp_offsite = 0 THEN Offsite ELSE f,
        Assigned_Seat |-> IF f = None THEN None ELSE v.fl[f].emp_seat]

\* One entry of seating_plan in app.py (lines 71-87): no table column.
AppRow(e, v, d) ==
    LET f == IF v.emp_offsite = 1 THEN None ELSE FirstFloor(v)
    IN [ID |-> e,
        Department |-> DepartmentOf(d, e),
        Assigned_Floor |-> IF v.emp_offsite = 1 THEN Offsite ELSE f,
        Assigned_Seat |-> IF f = None THEN None ELSE v.fl[f].emp_seat]

\* Position of a department label in sort order; NaN sorts last.
DeptRank(dep) ==
    IF dep = NaN THEN Len(DeptOrder) + 1
    ELSE CHOOSE i \in DOMAIN DeptOrder : DeptOrder[i] = dep

RowLeq(a, b) ==
    \/ DeptRank(a.Department) < DeptRank(b.Department)
    \/ DeptRank(a.Department) = DeptRank(b.Department) /\ a.ID <= b.ID

\* Insert row x after the last row that is not greater than it.
RECURSIVE InsertRow(_, _)
InsertRow(x, t) ==
    IF t = << >> THEN <<x>>
    ELSE IF RowLeq(t[Len(t)], x) THEN Append(t, x)
         ELSE Append(InsertRow(x, SubSeq(t, 1, Len(t) - 1)), t[Len(t)])

\* seating_df.sort_values(['Department', 'ID'])
RECURSIVE SortValues(_)
SortValues(rows) ==
    IF rows = << >> THEN << >>
    ELSE InsertRow(rows[Len(rows)], SortValues(SubSeq(rows, 1, Len(rows) - 1)))

\* dtype pandas gives the Assigned_Seat / Assigned_Table columns of a frame
\* built from a list of dicts: int64 without None, float64 with some None,
\* object with only None.
FrameDtype(rows) ==
    IF \A i \in DOMAIN rows : rows[i].Assigned_Seat # None THEN "int64"
    ELSE IF \A i \in DOMAIN rows : rows[i].Assigned_Seat = None THEN "object"
         ELSE "float64"

NoFile == [exists |-> FALSE, dtype |-> "", rows |-> << >>]

\* DataFrame.to_csv(path, index=False): a numeric cell is printed as its
\* column's dtype prints it (3 or 3.0), None / NaN as an empty cell.
ToCsv(rows, dtype) == [exists |-> TRUE, dtype |-> dtype, rows |-> rows]

\* pd.read_csv on a seating plan: an empty cell is NaN, and a column with an
\* empty cell (or with 3.0 cells) is float64.
ReadCsvDtype(file) ==
    IF file.dtype = "int64" /\ \A i \in DOMAIN file.rows : file.rows[i].Assigned_Seat # None
    THEN "int64" ELSE "float64"

\* df.to_csv("employees_350.csv", index=False): NaN is written as an empty cell.
RosterToCsv(d) ==
    [i \in 1..Len(d) |->
        [ID |-> d[i].ID,
         Department |-> IF d[i].Department = NaN THEN "" ELSE d[i].Department]]

\* ----------------------------------------------------------------- state
\* The program's state.
\* entry: which solve_seating runs: "main" (main.py) or "app" (app.py)
\* employees_csv: the roster file (employees_350.csv / the uploaded CSV)
\* floors: FLOORS
\* max_dept_percent: MAX_DEPT_PERCENT, in tenths
\* pc: Unsolved, Solving, Solved, Infeasible
\* df: the roster as read by pd.read_csv
\* employees: shuffled list of ids
\* departments: department -> list of member ids
\* status: CP-SAT status name, "" before the solve
\* solution: values of the model's variables, per employee id
\* seating_plan_csv: the file seating_plan.csv
\* result: DataFrame returned by app.py's solve_seating
\* raised: exception that left solve_seating, "" if none
\* processed: the files of processed/, by name
\* response: the response the service sent last
\* received: /upload requests served plus roster rows they carried
\* earlier: how the previous solve_seating call on this roster ended
\* req: the /upload requests in flight, by file name
VARIABLES entry, employees_csv, floors, max_dept_percent, pc, df, employees,
          departments, status, solution, seating_plan_csv, result, raised,
          processed, response, received, earlier, req

vars == <<entry, employees_csv, floors, max_dept_percent, pc, df, employees,
          departments, status, solution, seating_plan_csv, result, raised,
          processed, response, received, earlier, req>>

FileNames == {"a.csv", "b.csv"}
NoResponse == [kind |-> "", text |-> ""]
\* No value returned (yet) / the DataFrame app.py returns.
NoFrame == [returned |-> FALSE, rows |-> << >>]
Frame(rows) == [returned |-> TRUE, rows |-> rows]
\* No earlier call / no request received under a file name.
NoCall == [outcome |-> "", rows |-> << >>]
NoRequest == [at |-> "none", content |-> << >>, response |-> NoResponse]

Init ==
    /\ entry \in {"main", "app"}
    /\ employees_csv \in RosterFiles
    /\ floors \in FloorConfigs
    /\ Len(employees_csv) * (TotalSeats(floors) + 1) <= MaxCells
    /\ max_dept_percent \in Percents
    /\ pc = "Unsolved"
    /\ df = << >>
    /\ employees = << >>
    /\ departments = << >>
    /\ status = ""
    /\ solution = << >>
    /\ seating_plan_csv = NoFile
    /\ result = NoFrame
    /\ raised = ""
    /\ processed = [n \in FileNames |-> NoFile]
    /\ response = NoResponse
    /\ received = 0
    /\ earlier = NoCall
    /\ req = [n \in FileNames |-> NoRequest]

\* main.py 88-175 / app.py 17-62: read the roster, shuffle, group, build the
\* model; the call then blocks in solver.Solve.
LoadAndBuild ==
    /\ pc = "Unsolved"
    /\ df' = ReadRoster(employees_csv)
    /\ employees' = Shuffle(IdColumn(df'))
    /\ departments' = GroupByDepartment(df')
    /\ pc' = "Solving"
    /\ UNCHANGED <<entry, employees_csv, floors, max_dept_percent, status,
                   solution, seating_plan_csv, result, raised, processed,
                   response, received, earlier, req>>

\* seating_plan of main.py before the sort.
MainPlan(emps, sol, d) == [i \in DOMAIN emps |-> MainRow(emps[i], sol[emps[i]], d)]

\* seating_plan of app.py.
AppPlan(emps, sol, d) == [i \in DOMAIN emps |-> AppRow(emps[i], sol[emps[i]], d)]

\* seating_df.sort_values([...]).to_csv("seating_plan.csv", index=False)
MainWrite(emps, sol, d) ==
    LET rows == MainPlan(emps, sol, d)
    IN ToCsv(SortValues(rows), FrameDtype(rows))

\* Variant: a solve that ends without a solution is tried again.
MainSolveRetry ==
    /\ pc = "Solving"
    /\ entry = "main"
    /\ \E out \in SolverOutcomes(employees, departments, floors, max_dept_percent) :
        /\ status' = out.status
        /\ solution' = out.solution
        /\ IF Solved(out.status)
           THEN /\ pc' = "Solved"
                /\ IF employees = << >>
                   THEN /\ raised' = "KeyError"
                        /\ UNCHANGED seating_plan_csv
                   ELSE /\ seating_plan_csv' = MainWrite(employees, out.solution, df)
                        /\ UNCHANGED raised
           ELSE /\ pc' = "Solving"
                /\ UNCHANGED <<seating_plan_csv, raised>>
    /\ UNCHANGED <<entry, employees_csv, floors, max_dept_percent, df, employees,
                   departments, result, processed, response, received, earlier,
                   req>>

\* main.py 177-220: solve, decode, sort, write seating_plan.csv.  An empty
\* seating_plan makes a frame without columns and sort_values raises
\* KeyError before anything is written.
MainSolve ==
    /\ pc = "Solving"
    /\ entry = "main"
    /\ \E out \in SolverOutcomes(employees, departments, floors, max_dept_percent) :
        /\ status' = out.status
        /\ solution' = out.solution
        /\ IF Solved(out.status)
           THEN /\ pc' = "Solved"
                /\ IF employees = << >>
                   THEN /\ raised' = "KeyError"
                        /\ UNCHANGED seating_plan_csv
                   ELSE /\ seating_plan_csv' = MainWrite(employees, out.solution, df)
                        /\ UNCHANGED raised
           ELSE /\ pc' = "Infeasible"
                /\ UNCHANGED <<seating_plan_csv, raised>>
    /\ UNCHANGED <<entry, employees_csv, floors, max_dept_percent, df, employees,
                   departments, result, processed, response, received, earlier,
                   req>>

\* app.py 64-88: solve, decode, return the frame (empty when not solved).
AppSolve ==
    /\ pc = "Solving"
    /\ entry = "app"
    /\ \E out \in SolverOutcomes(employees, departments, floors, max_dept_percent) :
        /\ status' = out.status
        /\ solution' = out.solution
        /\ pc' = IF Solved(out.status) THEN "Solved" ELSE "Infeasible"
        /\ result' = IF Solved(out.status)
                     THEN Frame(AppPlan(employees, out.solution, df))
                     ELSE Frame(<< >>)
    /\ UNCHANGED <<entry, employees_csv, floors, max_dept_percent, df, employees,
                   departments, seating_plan_csv, raised, processed, response,
                   received, earlier, req>>

Next == LoadAndBuild \/ MainSolve \/ AppSolve

Spec == Init /\ [][Next]_vars

\* One call of main.py's solve_seating under main.py's own configuration
\* (two floors, the first larger; MAX_DEPT_PERCENT).  The call runs to its
\* return: reading and model building terminate and solver.Solve returns
\* within max_time_in_seconds.
InitLive ==
    /\ Init
    /\ entry = "main"
    /\ floors = <<2, 1>>
    /\ max_dept_percent = MAX_DEPT_PERCENT

NextLive == LoadAndBuild \/ MainSolve

SpecLive == InitLive /\ [][NextLive]_vars /\ WF_vars(NextLive)

\* ------------------------------------------------------ the upload service
\* FLOORS of main.py, scaled down: two floors, the first one larger.
UploadFloors == <<2, 1>>

\* Rosters sent to /upload: rows over two ids, with or without a department.
UploadRows == [ID : {1, 2}, Department : {"A", ""}]
UploadRosters(n) == [1..n -> UploadRows]

InitUpload ==
    /\ entry = "main"
    /\ employees_csv = << >>
    /\ floors = UploadFloors
    /\ max_dept_percent = MAX_DEPT_PERCENT
    /\ pc = "Unsolved"
    /\ df = << >>
    /\ employees = << >>
    /\ departments = << >>
    /\ status = ""
    /\ solution = << >>
    /\ seating_plan_csv = NoFile
    /\ result = NoFrame
    /\ raised = ""
    /\ processed = [n \in FileNames |-> NoFile]
    /\ response = NoResponse
    /\ received = 0
    /\ earlier = NoCall
    /\ req = [n \in FileNames |-> NoRequest]

\* seating_df = pd.read_csv("seating_plan.csv"); seating_df.to_csv(processed_path)
CopyPlan(file) == ToCsv(file.rows, ReadCsvDtype(file))

\* main.py 24-61, POST /upload with file `name` holding `content`.  The
\* handler has no suspension point after file.read(), so it runs to its
\* return in one step: store the roster, run solve_seating(), then copy
\* seating_plan.csv, if there is one, to processed/name.  The locals of
\* solve_seating are gone when it returns; pc keeps how its solve ended.
Upload(name, content) ==
    /\ received + 1 + Len(content) <= MaxInput
    /\ received' = received + 1 + Len(content)
    /\ employees_csv' = RosterToCsv(ReadRoster(content))
    /\ LET d == ReadRoster(employees_csv')
           emps == Shuffle(IdColumn(d))
           depts == GroupByDepartment(d)
       IN \E out \in SolverOutcomes(emps, depts, floors, max_dept_percent) :
           LET keyError == Solved(out.status) /\ emps = << >>
               plan == IF Solved(out.status) /\ ~keyError
                       THEN MainWrite(emps, out.solution, d)
                       ELSE seating_plan_csv
           IN /\ pc' = IF Solved(out.status) THEN "Solved" ELSE "Infeasible"
              /\ seating_plan_csv' = plan
              /\ raised' = IF keyError THEN "KeyError" ELSE ""
              /\ IF keyError
                 THEN /\ response' = [kind |-> "error", text |-> "Error processing file"]
                      /\ UNCHANGED processed
                 ELSE IF plan.exists
                      THEN /\ processed' = [processed EXCEPT ![name] = CopyPlan(plan)]
                           /\ response' = [kind |-> "filename", text |-> name]
                      ELSE /\ response' = [kind |-> "error",
                                           text |-> "Could not generate seating plan"]
                           /\ UNCHANGED processed
    /\ UNCHANGED <<entry, floors, max_dept_percent, df, employees, departments,
                   status, solution, result, earlier, req>>

NextUpload ==
    \E name \in FileNames : \E n \in 0..(MaxInput - 1 - received) :
        \E content \in UploadRosters(n) : Upload(name, content)

SpecUpload == InitUpload /\ [][NextUpload]_vars

\* ------------------------------------------- the service, request by request
\* uvicorn.run(app) serves all requests on one event loop.  A handler keeps
\* the loop's thread until it awaits something that suspends: upload_file
\* does so only in `await file.read()`; `await solve_seating()` runs the
\* coroutine inline and solver.Solve is a plain blocking call.

\* The loop's thread is inside the solve of some upload.
LoopBusy == \E n \in FileNames : req[n].at = "solving"

\* main.py 25-32: POST /upload with file n arrives and its body is read.
Receive(n, content) ==
    /\ ~LoopBusy
    /\ req[n].at = "none"
    /\ received + 1 + Len(content) <= MaxInput
    /\ received' = received + 1 + Len(content)
    /\ req' = [req EXCEPT ![n] = [at |-> "received", content |-> content,
                                  response |-> NoResponse]]
    /\ UNCHANGED <<entry, employees_csv, floors, max_dept_percent, pc, df,
                   employees, departments, status, solution, seating_plan_csv,
                   result, raised, processed, response, earlier>>

\* main.py 33-42 and 88-181: the handler of n resumes, stores the upload,
\* rewrites employees_350.csv and enters solve_seating, which reads that
\* file, shuffles, groups, builds the model and calls solver.Solve.
BeginSolve(n) ==
    /\ ~LoopBusy
    /\ req[n].at = "received"
    /\ employees_csv' = RosterToCsv(ReadRoster(req[n].content))
    /\ df' = ReadRoster(employees_csv')
    /\ employees' = Shuffle(IdColumn(df'))
    /\ departments' = GroupByDepartment(df')
    /\ pc' = "Solving"
    /\ raised' = ""
    /\ req' = [req EXCEPT ![n].at = "solving"]
    /\ UNCHANGED <<entry, floors, max_dept_percent, status, solution,
                   seating_plan_csv, result, processed, response, received,
                   earlier>>

\* main.py 181-220 and 44-61: solver.Solve returns to the handler of n;
\* decode, sort and write seating_plan.csv when solved, then copy
\* seating_plan.csv, if there is one, to processed/n and answer.  The locals
\* of solve_seating are gone when it returns.
EndSolve(n) ==
    /\ req[n].at = "solving"
    /\ \E out \in SolverOutcomes(employees, departments, floors, max_dept_percent) :
           LET keyError == Solved(out.status) /\ employees = << >>
               plan == IF Solved(out.status) /\ ~keyError
                       THEN MainWrite(employees, out.solution, df)
                       ELSE seating_plan_csv
               answer == IF keyError
                         THEN [kind |-> "error", text |-> "Error processing file"]
                         ELSE IF plan.exists
                              THEN [kind |-> "filename", text |-> n]
                              ELSE [kind |-> "error",
                                    text |-> "Could not generate seating plan"]
           IN /\ pc' = IF Solved(out.status) THEN "Solved" ELSE "Infeasible"
              /\ seating_plan_csv' = plan
              /\ raised' = IF keyError THEN "KeyError" ELSE ""
              /\ processed' = IF answer.kind = "filename"
                              THEN [processed EXCEPT ![n] = CopyPlan(plan)]
                              ELSE processed
              /\ response' = answer
              /\ req' = [req EXCEPT ![n].at = "done", ![n].response = answer]
    /\ df' = << >>
    /\ employees' = << >>
    /\ departments' = << >>
    /\ UNCHANGED <<entry, employees_csv, floors, max_dept_percent, status,
                   solution, result, received, earlier>>

\* main.py 63-79: GET /download/n is answered from processed/.
Download(n) ==
    /\ ~LoopBusy
    /\ response' = IF processed[n].exists
                   THEN [kind |-> "file", text |-> n]
                   ELSE [kind |-> "error", text |-> "File not found"]
    /\ UNCHANGED <<entry, employees_csv, floors, max_dept_percent, pc, df,
                   employees, departments, status, solution, seating_plan_csv,
                   result, raised, processed, received, earlier, req>>

NextService ==
    \E n \in FileNames :
        \/ \E k \in 0..(MaxInput - 1 - received) :
               \E content \in UploadRosters(k) : Receive(n, content)
        \/ BeginSolve(n)
        \/ EndSolve(n)
        \/ Download(n)

SpecService == InitUpload /\ [][NextService]_vars

\* --------------------------------------------------- a second call
\* solve_seating is called again with the roster and the configuration of
\* the call that just ended (POST /solve of main.py, the "Run Seating
\* Solver" button of app.py).  earlier keeps what that call handed out;
\* seating_plan.csv stays on disk, the locals of the call are new.
SolveAgain ==
    /\ pc \in {"Solved", "Infeasible"}
    /\ earlier = NoCall
    /\ earlier' = [outcome |-> pc,
                   rows |-> IF pc # "Solved" THEN << >>
                            ELSE IF entry = "main" THEN seating_plan_csv.rows
                            ELSE result.rows]
    /\ pc' = "Unsolved"
    /\ df' = << >>
    /\ employees' = << >>
    /\ departments' = << >>
    /\ status' = ""
    /\ solution' = << >>
    /\ result' = NoFrame
    /\ raised' = ""
    /\ UNCHANGED <<entry, employees_csv, floors, max_dept_percent,
                   seating_plan_csv, processed, response, received, req>>

\* POST /solve of main.py, twice, on a roster with unique ids and no empty
\* department.
InitRepeat ==
    /\ Init
    /\ entry = "main"
    /\ employees_csv # << >>
    /\ \A i \in DOMAIN employees_csv :
           /\ employees_csv[i].Department # ""
           /\ \A j \in DOMAIN employees_csv :
                  employees_csv[i].ID = employees_csv[j].ID => i = j

NextRepeat == LoadAndBuild \/ MainSolve \/ SolveAgain

SpecRepeat == InitRepeat /\ [][NextRepeat]_vars

\* ------------------------------------------------------ the /visualize page
\* Attendance ranges of the weekly calendar.
floor1_min == 45
floor1_max == 50
floor2_min == 44
floor2_max == 48
weekdays == <<"Monday", "Tuesday", "Wednesday", "Thursday", "Friday">>

Minimum(a, b) == IF a <= b THEN a ELSE b
Maximum(a, b) == IF a >= b THEN a ELSE b

\* int(x * (p + 0.05 * k)) with p in hundredths.  For the values the
\* calendar uses the float product is either an exact integer or at least
\* 0.2 away from one, so truncation agrees with the integer quotient.
Scaled(x, p, k) == (x * (p + 5 * k)) \div 100

\* floor1_count / floor2_count of a day before the adjustment; day_idx is
\* 0-based (Monday is 0).
Floor1Count(day_idx) ==
    IF day_idx % 2 = 0
    THEN Minimum(floor1_max, Maximum(floor1_min, Scaled(floor1_max, 95, day_idx % 3)))
    ELSE Minimum(floor1_max, Maximum(floor1_min, Scaled(floor1_min, 90, day_idx % 2)))

Floor2Count(day_idx) ==
    IF day_idx % 2 = 0
    THEN Minimum(floor2_max, Maximum(floor2_min, Scaled(floor2_min, 90, day_idx % 3)))
    ELSE Minimum(floor2_max, Maximum(floor2_min, Scaled(floor2_max, 95, day_idx % 2)))

\* One day of the calendar: the counts, and the reduction of the floor
\* counts towards their minimum when the offsite count comes out negative.
CalendarDay(total_employees, day_idx) ==
    LET floor1_count == Floor1Count(day_idx)
        floor2_count == Floor2Count(day_idx)
        offsite_count == total_employees - (floor1_count + floor2_count)
        excess == 0 - offsite_count
        floor1_reduction == Minimum(excess \div 2, floor1_count - floor1_min)
        floor2_reduction ==
            Minimum(excess - floor1_reduction, floor2_count - floor2_min)
        floor1_reduced == floor1_count - floor1_reduction
        floor2_reduced == floor2_count - floor2_reduction
    IN IF offsite_count < 0
       THEN [day |-> weekdays[day_idx + 1],
             floor1 |-> floor1_reduced,
             floor2 |-> floor2_reduced,
             offsite |-> total_employees - (floor1_reduced + floor2_reduced)]
       ELSE [day |-> weekdays[day_idx + 1],
             floor1 |-> floor1_count,
             floor2 |-> floor2_count,
             offsite |-> offsite_count]

Calendar(total_employees) ==
    [d \in DOMAIN weekdays |-> CalendarDay(total_employees, d - 1)]

\* sorted(...) of a set of numbers.
RECURSIVE Ascending(_)
Ascending(S) ==
    IF S = {} THEN << >>
    ELSE LET least == CHOOSE x \in S : \A y \in S : x <= y
         IN <<least>> \o Ascending(S \ {least})

RECURSIVE Concat(_)
Concat(ss) == IF ss = << >> THEN << >> ELSE Head(ss) \o Concat(Tail(ss))

\* seat_position = (table_num - 1) * SEATS_PER_TABLE + seat_num
SeatPosition(table_num, seat_num) == (table_num - 1) * SEATS_PER_TABLE + seat_num

\* ((int(x) - 1) % SEATS_PER_TABLE) + 1: the position of seat x at its table
RelativeSeat(x) == ((x - 1) % SEATS_PER_TABLE) + 1

\* pd.read_csv("seating_plan.csv") followed by pd.to_numeric(Assigned_Floor,
\* errors='coerce'): the cell 'Offsite' becomes NaN.
VisualizeFrame(file) ==
    [i \in DOMAIN file.rows |->
        [file.rows[i] EXCEPT !.Assigned_Floor = IF @ = Offsite THEN None ELSE @]]

\* sorted(departments) in create_simple_floor_diagram compares the labels of
\* the floor's rows; a NaN (float) next to a string label raises TypeError.
SortedDepartmentsRaises(floor_df) ==
    LET labels == {floor_df[i].Department : i \in DOMAIN floor_df}
    IN NaN \in labels /\ labels # {NaN}

\* The six seats of one table as create_simple_floor_diagram draws them:
\* the first row of the table at each relative position, or an empty seat.
TableSeats(floor_num, table_num, table_df) ==
    [seat_num \in 1..SEATS_PER_TABLE |->
        LET emp_df == SelectSeq(table_df,
                          LAMBDA r : RelativeSeat(r.Assigned_Seat) = seat_num)
        IN [floor |-> floor_num,
            table |-> table_num,
            seat_num |-> seat_num,
            ID |-> IF emp_df # << >> THEN emp_df[1].ID ELSE None]]

\* create_simple_floor_diagram(floor_num, floor_df): the seats drawn, table
\* by table in ascending table number.
SimpleFloorDiagram(floor_num, floor_df) ==
    LET tables == Ascending({floor_df[i].Assigned_Table : i \in DOMAIN floor_df}
                                \ {None})
    IN Concat([k \in DOMAIN tables |->
                  TableSeats(floor_num, tables[k],
                      SelectSeq(floor_df, LAMBDA r : r.Assigned_Table = tables[k]))])

Page(text, diagrams, calendar) ==
    [kind |-> "html", text |-> text, diagrams |-> diagrams, calendar |-> calendar]

\* The body of visualize_floors for an existing seating_plan.csv.
VisualizePage(file) ==
    LET frame == VisualizeFrame(file)
        floor_nums == Ascending({frame[i].Assigned_Floor : i \in DOMAIN frame}
                                    \ {None})
        floor_df(f) == SelectSeq(frame, LAMBDA r : r.Assigned_Floor = f)
    IN IF \A i \in DOMAIN frame : frame[i].Assigned_Seat = None
       THEN Page("No seat assignments found in the data", << >>, << >>)
       ELSE IF \E k \in DOMAIN floor_nums :
                   SortedDepartmentsRaises(floor_df(floor_nums[k]))
            THEN Page("Error generating floor plans", << >>, << >>)
            ELSE Page("",
                      Concat([k \in DOMAIN floor_nums |->
                                 SimpleFloorDiagram(floor_nums[k],
                                                    floor_df(floor_nums[k]))]),
                      Calendar(Len(frame)))

\* main.py 575-997, GET /visualize after the solve has returned.
Visualize ==
    /\ pc \in {"Solved", "Infeasible"}
    /\ response = NoResponse
    /\ response' = IF seating_plan_csv.exists
                   THEN VisualizePage(seating_plan_csv)
                   ELSE Page("No seating plan available", << >>, << >>)
    /\ UNCHANGED <<entry, employees_csv, floors, max_dept_percent, pc, df,
                   employees, departments, status, solution, seating_plan_csv,
                   result, raised, processed, received, earlier, req>>

\* One call of main.py's solve_seating followed by one GET /visualize.
InitVisualize == Init /\ entry = "main"

NextVisualize == LoadAndBuild \/ MainSolve \/ Visualize

SpecVisualize == InitVisualize /\ [][NextVisualize]_vars

\* ---------------------------------------------------------------- claims
\* The assignment table a finished solve hands out: the rows of
\* seating_plan.csv (main.py) or of the returned frame (app.py).
OutputRows == IF entry = "main" THEN seating_plan_csv.rows ELSE result.rows

RowsWithId(rows, id) == Cardinality({i \in DOMAIN rows : rows[i].ID = id})

OnFloorRows(rows, f) == {i \in DOMAIN rows : rows[i].Assigned_Floor = f}

UniqueIds(file) == \A i \in DOMAIN file : \A j \in DOMAIN file :
                       file[i].ID = file[j].ID => i = j

\* C1: when the solve ends Solved, every roster row has exactly one output
\* row (an id has as many output rows as roster rows, so exactly one under
\* unique ids), and every Assigned_Floor is a configured floor id or Offsite.
C1_TotalAssignment ==
    pc = "Solved" =>
        /\ \A id \in Ids :
               RowsWithId(OutputRows, id) = RowsWithId(employees_csv, id)
        /\ \A i \in DOMAIN OutputRows :
               OutputRows[i].Assigned_Floor \in DOMAIN floors \cup {Offsite}

C1_Witness ==
    /\ pc = "Solved"
    /\ Len(employees_csv) = 3
    /\ UniqueIds(employees_csv)
    /\ Len(OutputRows) = 3
    /\ \E i \in DOMAIN OutputRows : OutputRows[i].Assigned_Floor = Offsite
    /\ \E i \in DOMAIN OutputRows : OutputRows[i].Assigned_Floor \in DOMAIN floors

\* C2: in a Solved outcome no two distinct output rows that are not Offsite
\* have the same (Assigned_Floor, Assigned_Seat).
C2_SeatInjective ==
    pc = "Solved" =>
        \A i \in DOMAIN OutputRows : \A j \in DOMAIN OutputRows :
            (/\ i # j
             /\ OutputRows[i].Assigned_Floor # Offsite
             /\ OutputRows[i].Assigned_Floor = OutputRows[j].Assigned_Floor)
                => OutputRows[i].Assigned_Seat # OutputRows[j].Assigned_Seat

C2_Witness ==
    /\ pc = "Solved"
    /\ \E i \in DOMAIN OutputRows : \E j \in DOMAIN OutputRows :
           /\ OutputRows[i].ID # OutputRows[j].ID
           /\ OutputRows[i].Assigned_Floor = 1
           /\ OutputRows[j].Assigned_Floor = 1
           /\ OutputRows[i].Assigned_Seat = 1
           /\ OutputRows[j].Assigned_Seat = 2

\* C3: in a Solved outcome the number of output rows on floor f is at most
\* the seat capacity of f, for every floor f.
C3_FloorCapacity ==
    pc = "Solved" =>
        \A f \in DOMAIN floors : Cardinality(OnFloorRows(OutputRows, f)) <= floors[f]

\* Three employees compete for a floor that is full.
C3_Witness ==
    /\ pc = "Solved"
    /\ Len(OutputRows) = 3
    /\ \E f \in DOMAIN floors :
           /\ Cardinality(OnFloorRows(OutputRows, f)) = floors[f]
           /\ \E i \in DOMAIN OutputRows : OutputRows[i].Assigned_Floor = Offsite

RosterDept(file, dept) == {i \in DOMAIN file : file[i].Department = dept}

OnSiteOfDept(rows, dept) ==
    {i \in DOMAIN rows : rows[i].Department = dept /\ rows[i].Assigned_Floor # Offsite}

\* C4: in a Solved outcome the on-site rows of department d number at most
\* floor(max_dept_percent * |d|); with the percent in tenths that is
\* 10 * count <= percent * |d|.
C4_DeptCap ==
    pc = "Solved" =>
        \A dept \in Depts :
            10 * Cardinality(OnSiteOfDept(OutputRows, dept))
                <= max_dept_percent * Cardinality(RosterDept(employees_csv, dept))

\* A department of three under the default 0.6 with its single allowed member
\* on site.
C4_Witness ==
    /\ pc = "Solved"
    /\ max_dept_percent = MAX_DEPT_PERCENT
    /\ UniqueIds(employees_csv)
    /\ \E dept \in Depts :
           /\ Cardinality(RosterDept(employees_csv, dept)) = 3
           /\ Cardinality(OnSiteOfDept(OutputRows, dept)) = 1

\* C5: in a Solved outcome, if a member of department d is assigned to floor
\* f then every other member of d is Offsite or on f.
C5_Cohesion ==
    pc = "Solved" =>
        \A i \in DOMAIN OutputRows : \A j \in DOMAIN OutputRows :
            (/\ OutputRows[i].Department = OutputRows[j].Department
             /\ OutputRows[i].Department # NaN
             /\ OutputRows[i].Assigned_Floor # Offsite)
                => OutputRows[j].Assigned_Floor
                       \in {Offsite, OutputRows[i].Assigned_Floor}

\* Two floors, two members of one department on site, both on the same floor.
C5_Witness ==
    /\ pc = "Solved"
    /\ Len(floors) = 2
    /\ \E i \in DOMAIN OutputRows : \E j \in DOMAIN OutputRows :
           /\ i # j
           /\ OutputRows[i].Department = OutputRows[j].Department
           /\ OutputRows[i].Department # NaN
           /\ OutputRows[i].Assigned_Floor # Offsite
           /\ OutputRows[j].Assigned_Floor = OutputRows[i].Assigned_Floor

\* C6: every seated row of main.py's table has Assigned_Table =
\* ((Assigned_Seat - 1) div 6) + 1, i.e. the seat lies in the table's block
\* of six seats: 6 * (table - 1) < seat <= 6 * table.
C6_TableDerivation ==
    (pc = "Solved" /\ entry = "main") =>
        \A i \in DOMAIN OutputRows :
            OutputRows[i].Assigned_Floor # Offsite =>
                /\ 6 * (OutputRows[i].Assigned_Table - 1) < OutputRows[i].Assigned_Seat
                /\ OutputRows[i].Assigned_Seat <= 6 * OutputRows[i].Assigned_Table

\* Seats at the edge of the first table and on the second table.
C6_Witness ==
    /\ pc = "Solved"
    /\ entry = "main"
    /\ \E i \in DOMAIN OutputRows :
           \/ OutputRows[i].Assigned_Seat = 6 /\ OutputRows[i].Assigned_Table = 1
           \/ OutputRows[i].Assigned_Seat = 7 /\ OutputRows[i].Assigned_Table = 2

\* C7: in every row of main.py's table Assigned_Seat and Assigned_Table are
\* absent exactly when Assigned_Floor is Offsite, and a row on floor f has
\* Assigned_Seat in 1..capacity(f).
C7_SeatPresence ==
    (pc = "Solved" /\ entry = "main") =>
        \A i \in DOMAIN OutputRows :
            LET r == OutputRows[i]
            IN /\ (r.Assigned_Floor = Offsite) <=> (r.Assigned_Seat = None)
               /\ (r.Assigned_Floor = Offsite) <=> (r.Assigned_Table = None)
               /\ r.Assigned_Floor \in DOMAIN floors =>
                      r.Assigned_Seat \in 1..floors[r.Assigned_Floor]

C7_Witness ==
    /\ pc = "Solved"
    /\ entry = "main"
    /\ \E i \in DOMAIN OutputRows :
           /\ OutputRows[i].Assigned_Floor = Offsite
           /\ OutputRows[i].Assigned_Seat = None
           /\ OutputRows[i].Assigned_Table = None
    /\ \E i \in DOMAIN OutputRows :
           /\ OutputRows[i].Assigned_Floor = 2
           /\ OutputRows[i].Assigned_Seat = floors[2]

\* C8: a solve that ends without a solution (status neither OPTIMAL nor
\* FEASIBLE) raises NoFeasibleSolutionError to its caller and hands out no
\* table, not even an empty one.
C8_FailureReported ==
    pc = "Infeasible" =>
        /\ raised = "NoFeasibleSolutionError"
        /\ ~result.returned
        /\ ~seating_plan_csv.exists

\* The sorted tables solve_seating can write for a roster file.
PlansOf(file) ==
    LET d == ReadRoster(file)
        emps == Shuffle(IdColumn(d))
    IN {SortValues(MainPlan(emps, sol, d)) :
           sol \in Solutions(emps, GroupByDepartment(d), floors, max_dept_percent)}

\* C9: a success response {"filename": F} of /upload implies that the solve
\* of that request succeeded and that processed/F holds a plan of the roster
\* uploaded in that request (employees_350.csv is that roster).
C9_SuccessIsFresh ==
    response.kind = "filename" =>
        /\ pc = "Solved"
        /\ processed[response.text].exists
        /\ processed[response.text].rows \in PlansOf(employees_csv)

InvalidRoster(file) ==
    \/ file = << >>
    \/ ~UniqueIds(file)
    \/ \E i \in DOMAIN file : file[i].Department = ""

\* C10: for a roster with a duplicated id, an empty department or no rows,
\* solve_seating fails with InvalidInputError before it builds a model, and
\* no table is produced.
C10_InvalidRejected ==
    InvalidRoster(employees_csv) =>
        /\ pc = "Unsolved"
        /\ raised \in {"", "InvalidInputError"}
        /\ ~result.returned
        /\ ~seating_plan_csv.exists

\* Row a comes before row b, or ties with it, when ordered by Department and
\* then by ID.
DeptThenId(a, b) ==
    \/ a.Department # b.Department /\ DeptRank(a.Department) < DeptRank(b.Department)
    \/ a.Department = b.Department /\ a.ID <= b.ID

\* C11: the output rows of a Solved outcome are ordered by Department and
\* then by ID, whatever order the shuffle gave the employees.
C11_SortedOutput ==
    pc = "Solved" =>
        \A i \in DOMAIN OutputRows : \A j \in DOMAIN OutputRows :
            i < j => DeptThenId(OutputRows[i], OutputRows[j])

\* C12: two calls of solve_seating with the same roster, configuration and
\* seed end the same way (both Solved or both Infeasible) and, when Solved,
\* hand out the same table: same floor, seat and table for every employee.
C12_Deterministic ==
    (pc \in {"Solved", "Infeasible"} /\ earlier # NoCall) =>
        /\ earlier.outcome = pc
        /\ pc = "Solved" => earlier.rows = OutputRows

\* Number of on-site rows of a table, and of on-site employees of an
\* assignment of the model's variables.
OnSiteRows(rows) ==
    Cardinality({i \in DOMAIN rows : rows[i].Assigned_Floor # Offsite})

OnSiteCount(sol, emps) ==
    Cardinality({i \in DOMAIN emps : FloorSum(sol[emps[i]]) >= 1})

\* The assignments satisfying the placement, seat, floor-capacity,
\* department-cap and cohesion constraints for the roster and configuration
\* of the current call.
Feasible == Solutions(employees, departments, floors, max_dept_percent)

IsMaxHeadcount(n) ==
    /\ \E sol \in Feasible : OnSiteCount(sol, employees) = n
    /\ \A sol \in Feasible : OnSiteCount(sol, employees) <= n

\* C13 as stated: in every Solved outcome the number of on-site employees
\* is the maximum over all assignments satisfying the constraints.
C13_MaxHeadcount ==
    pc = "Solved" => IsMaxHeadcount(OnSiteRows(OutputRows))

\* C13 amended: in every Solved outcome whose solver status is OPTIMAL the
\* number of on-site employees is the maximum over all assignments
\* satisfying the constraints (a FEASIBLE outcome may seat fewer).
C13_OptimalHeadcount ==
    (pc = "Solved" /\ status = "OPTIMAL") => IsMaxHeadcount(OnSiteRows(OutputRows))

\* An optimal outcome that seats two of three employees, where seating
\* fewer was feasible too.
C13_Witness ==
    /\ pc = "Solved"
    /\ status = "OPTIMAL"
    /\ Len(OutputRows) = 3
    /\ OnSiteRows(OutputRows) = 2
    /\ \E sol \in Feasible : OnSiteCount(sol, employees) = 0

\* The values of employee e's variables when e holds seat s of floor f.
SeatedAt(f, s) ==
    [fl |-> [g \in DOMAIN floors |->
                [emp_floor |-> IF g = f THEN 1 ELSE 0,
                 emp_seat |-> IF g = f THEN s ELSE 0,
                 emp_seat_bool |-> [x \in 1..floors[g] |->
                                       IF g = f /\ x = s THEN 1 ELSE 0]]],
     emp_offsite |-> 0,
     on_site |-> 1]

\* Employee e is Offsite in the returned assignment and seat s of floor f
\* is free in it.
OffsiteWithFreeSeat(e, f, s) ==
    /\ solution[e].emp_offsite = 1
    /\ \A i \in DOMAIN employees : solution[employees[i]].fl[f].emp_seat_bool[s] = 0

\* The returned assignment with e moved to seat s of floor f still satisfies
\* the floor-capacity, department-cap and cohesion constraints.
StillWithinCaps(e, f, s) ==
    LET moved == [solution EXCEPT ![e] = SeatedAt(f, s)]
    IN /\ \A g \in DOMAIN floors : FloorCapacity(moved, employees, g, floors[g])
       /\ \A d \in DOMAIN departments : DeptCap(moved, departments[d], max_dept_percent)
       /\ \A d \in DOMAIN departments : \A g \in DOMAIN floors :
              Cohesion(moved, departments[d], g)

\* ... and the seat-exclusivity constraints as well.
StillExclusive(e, f, s) ==
    LET moved == [solution EXCEPT ![e] = SeatedAt(f, s)]
    IN \A g \in DOMAIN floors : \A x \in 1..floors[g] :
           SeatExclusive(moved, employees, g, x)

\* C14 as stated: in every Solved outcome no Offsite employee could be
\* placed on a free seat of some floor within the floor-capacity,
\* department-cap and cohesion constraints.
C14_NoPlaceableOffsite ==
    pc = "Solved" =>
        \A e \in Range(employees) : \A f \in DOMAIN floors : \A s \in 1..floors[f] :
            ~(OffsiteWithFreeSeat(e, f, s) /\ StillWithinCaps(e, f, s))

\* C14 amended: in every Solved outcome whose solver status is OPTIMAL no
\* Offsite employee could be placed on a free seat of some floor within the
\* seat-exclusivity, floor-capacity, department-cap and cohesion constraints.
C14_OptimalNoPlaceableOffsite ==
    (pc = "Solved" /\ status = "OPTIMAL") =>
        \A e \in Range(employees) : \A f \in DOMAIN floors : \A s \in 1..floors[f] :
            ~(/\ OffsiteWithFreeSeat(e, f, s)
              /\ StillWithinCaps(e, f, s)
              /\ StillExclusive(e, f, s))

\* An optimal outcome with an Offsite employee next to a free seat: the
\* department cap of 0.6 keeps the employee out.
C14_Witness ==
    /\ pc = "Solved"
    /\ status = "OPTIMAL"
    /\ UniqueIds(employees_csv)
    /\ max_dept_percent = MAX_DEPT_PERCENT
    /\ OnSiteRows(OutputRows) >= 1
    /\ \E e \in Range(employees) : \E f \in DOMAIN floors : \E s \in 1..floors[f] :
           OffsiteWithFreeSeat(e, f, s)

\* The scenario of C15: three employees of one department, one floor of two
\* seats, six seats per table, max_dept_percent 1.0.
OneDeptOfThree ==
    /\ Len(employees_csv) = 3
    /\ UniqueIds(employees_csv)
    /\ \E dept \in Depts : \A i \in DOMAIN employees_csv :
           employees_csv[i].Department = dept
    /\ floors = <<2>>
    /\ SEATS_PER_TABLE = 6
    /\ max_dept_percent = 10

SeatedRows(rows) == {i \in DOMAIN rows : rows[i].Assigned_Floor # Offsite}

SameFloorDistinctSeats(rows) ==
    \A i \in SeatedRows(rows) : \A j \in SeatedRows(rows) :
        i # j => /\ rows[i].Assigned_Floor = rows[j].Assigned_Floor
                 /\ rows[i].Assigned_Seat # rows[j].Assigned_Seat

\* C15 as stated: in the scenario every Solved outcome has a member Offsite
\* and two seated members, which are on the same floor on distinct seats.
C15_TwoSeatedOneOffsite ==
    (pc = "Solved" /\ OneDeptOfThree) =>
        /\ \E i \in DOMAIN OutputRows : OutputRows[i].Assigned_Floor = Offsite
        /\ Cardinality(SeatedRows(OutputRows)) = 2
        /\ SameFloorDistinctSeats(OutputRows)

\* C15 amended: in the scenario every Solved outcome has a member Offsite
\* and its seated members are on the same floor on distinct seats; when the
\* solver status is OPTIMAL exactly two members are seated.
C15_SeatedTogether ==
    (pc = "Solved" /\ OneDeptOfThree) =>
        /\ \E i \in DOMAIN OutputRows : OutputRows[i].Assigned_Floor = Offsite
        /\ SameFloorDistinctSeats(OutputRows)
        /\ status = "OPTIMAL" => Cardinality(SeatedRows(OutputRows)) = 2

C15_Witness ==
    /\ pc = "Solved"
    /\ OneDeptOfThree
    /\ status = "OPTIMAL"
    /\ entry = "app"
    /\ Cardinality(SeatedRows(OutputRows)) = 2
    /\ Cardinality(DOMAIN OutputRows \ SeatedRows(OutputRows)) = 1

\* C16: with an empty floor set, marking every employee Offsite is a
\* feasible assignment and the only one, and a solve that returns a table
\* returns that one: a row per roster row, each Offsite and without a seat.
C16_EmptyFloorsAllOffsite ==
    (entry = "app" /\ floors = << >>) =>
        /\ pc = "Solving" =>
               /\ Cardinality(Feasible) = 1
               /\ \A sol \in Feasible : \A e \in Range(employees) :
                      sol[e].emp_offsite = 1
        /\ pc = "Solved" =>
               /\ \A id \in Ids :
                      RowsWithId(OutputRows, id) = RowsWithId(employees_csv, id)
               /\ \A i \in DOMAIN OutputRows :
                      /\ OutputRows[i].Assigned_Floor = Offsite
                      /\ OutputRows[i].Assigned_Seat = None

C16_Witness ==
    /\ entry = "app"
    /\ floors = << >>
    /\ pc = "Solved"
    /\ UniqueIds(employees_csv)
    /\ Len(OutputRows) = 3
    /\ \A i \in DOMAIN OutputRows : OutputRows[i].Assigned_Floor = Offsite

\* C17: under any interleaving of two /upload requests each solve works on
\* the roster of its own request, and a plan reported for file n holds
\* exactly the employees of the roster uploaded as n.
C17_Independent ==
    \A n \in FileNames :
        /\ req[n].at = "solving" => IdColumn(df) = IdColumn(req[n].content)
        /\ (req[n].at = "done" /\ req[n].response.kind = "filename") =>
               \A id \in Ids :
                   RowsWithId(processed[n].rows, id) = RowsWithId(req[n].content, id)

\* C18: while the solve of one request is running, an unrelated request
\* (GET /download/n) can be accepted and answered.
C18_ServedWhileSolving ==
    pc = "Solving" => \A n \in FileNames : ENABLED Download(n)

\* C19: every step of a solver invocation is Unsolved -> Solving or
\* Solving -> Solved / Infeasible (so a finished invocation never leaves its
\* final state and never solves again), and every invocation eventually
\* reaches Solved or Infeasible.
C19_StateMachine ==
    /\ [][\/ pc = "Unsolved" /\ pc' = "Solving"
          \/ pc = "Solving" /\ pc' \in {"Solved", "Infeasible"}]_vars
    /\ <>(pc \in {"Solved", "Infeasible"})

\* An invocation that ran out of time without a solution and stopped there.
C19_Witness ==
    /\ pc = "Infeasible"
    /\ status = "UNKNOWN"
    /\ Len(employees) = 2

Occurrences(list, x) == Cardinality({i \in DOMAIN list : list[i] = x})

\* C20: for a roster with unique ids the ordered employee list holds every
\* roster id exactly once and nothing else, and every roster id is in the
\* member list of its own department, once, and in no other member list.
C20_NormalizerPartition ==
    (pc = "Solving" /\ UniqueIds(employees_csv)) =>
        /\ Len(employees) = Len(employees_csv)
        /\ \A i \in DOMAIN employees_csv :
               LET id == employees_csv[i].ID
                   dept == employees_csv[i].Department
               IN /\ Occurrences(employees, id) = 1
                  /\ dept \in DOMAIN departments
                  /\ \A d \in DOMAIN departments :
                         Occurrences(departments[d], id) = IF d = dept THEN 1 ELSE 0

\* Every valuation of the model's variables that gives each employee
\* exactly one place (the constraints on one employee alone).
Placements == [Range(employees) -> EmpVals(floors)]

\* The pairwise cohesion constraints of one department, over all floors.
PairwiseCohesion(sol, members) ==
    \A f \in DOMAIN floors : Cohesion(sol, members, f)

\* The linearized encoding of the design note: one indicator per floor
\* marking the department's active floor, at most one floor active, and
\* emp_floor[(e, f)] <= active[f] for every member e and floor f.
LinearizedCohesion(sol, members) ==
    \E active \in [DOMAIN floors -> {0, 1}] :
        /\ SumSeq(active) <= 1
        /\ \A i \in DOMAIN members : \A f \in DOMAIN floors :
               sol[members[i]].fl[f].emp_floor <= active[f]

\* C21: given exactly one place per employee, a valuation satisfies the
\* pairwise cohesion constraints of a department exactly when it satisfies
\* the linearized encoding with one shared active floor, for every roster
\* and floor set; so both encodings have the same feasible set.
C21_CohesionEncodings ==
    pc = "Solving" =>
        \A d \in DOMAIN departments : \A sol \in Placements :
            PairwiseCohesion(sol, departments[d])
                <=> LinearizedCohesion(sol, departments[d])

\* A department of two on two floors: seating both on one floor satisfies
\* the pairwise constraints, splitting them over the floors does not.
C21_Witness ==
    /\ pc = "Solving"
    /\ Len(floors) = 2
    /\ \E d \in DOMAIN departments :
        /\ Cardinality(Range(departments[d])) >= 2
        /\ \E sol \in Placements :
               /\ \A i \in DOMAIN departments[d] : sol[departments[d][i]].on_site = 1
               /\ PairwiseCohesion(sol, departments[d])
        /\ \E sol \in Placements :
               /\ \A i \in DOMAIN departments[d] : sol[departments[d][i]].on_site = 1
               /\ ~PairwiseCohesion(sol, departments[d])

\* The two terms of the objective: sum(on_site[e] for e in employees) and
\* sum(emp_floor[(e, f)] for e in employees for f in FLOORS).
PrimaryTerm(sol, emps) == SumSeq([i \in DOMAIN emps |-> sol[emps[i]].on_site])

SecondaryTerm(sol, emps) == SumSeq([i \in DOMAIN emps |-> FloorSum(sol[emps[i]])])

\* C22: in every assignment satisfying the constraints the secondary term
\* equals the sum of the on-site indicators, which is the number of on-site
\* employees, so the objective is 1001 times the headcount and orders any
\* two assignments as the headcount does; the objective of a returned
\* assignment is 1001 times the number of on-site rows of its table.
C22_ObjectiveIsHeadcount ==
    /\ pc = "Solving" =>
           /\ \A sol \in Feasible :
                  /\ SecondaryTerm(sol, employees) = PrimaryTerm(sol, employees)
                  /\ PrimaryTerm(sol, employees) = OnSiteCount(sol, employees)
                  /\ Objective(sol, employees) = 1001 * OnSiteCount(sol, employees)
           /\ \A a \in Feasible : \A b \in Feasible :
                  Objective(a, employees) <= Objective(b, employees)
                      <=> PrimaryTerm(a, employees) <= PrimaryTerm(b, employees)
    /\ (pc = "Solved" /\ raised = "") =>
           Objective(solution, employees) = 1001 * OnSiteRows(OutputRows)

\* A returned assignment with two employees on site, objective 2002, for a
\* roster that also has assignments of objective 0 and 1001.
C22_Witness ==
    /\ pc = "Solved"
    /\ OnSiteRows(OutputRows) = 2
    /\ Objective(solution, employees) = 2002
    /\ \E sol \in Feasible : Objective(sol, employees) = 1001
    /\ \E sol \in Feasible : Objective(sol, employees) = 0

\* C23: in the weekly calendar of /visualize the displayed offsite count of
\* every weekday is never negative, whatever the number of rows of the
\* seating plan.
C23_OffsiteNonNegative ==
    response.kind = "html" =>
        \A d \in DOMAIN response.calendar : response.calendar[d].offsite >= 0

\* The rows of seating_plan.csv that hold a seat.
SeatedPlanRows ==
    {i \in DOMAIN seating_plan_csv.rows :
        seating_plan_csv.rows[i].Assigned_Floor # Offsite}

\* C24: every seat number s of a floor is (t-1)*6 + r for its table t and
\* relative position r; no two employees at the same table of a floor have
\* the same relative position; and every seated employee is drawn at exactly
\* one seat of the floor diagrams of /visualize, the one at its floor, table
\* and relative position.
C24_TableAlgebra ==
    /\ \A f \in DOMAIN floors : \A s \in 1..floors[f] :
           SeatPosition(TableOf(s), RelativeSeat(s)) = s
    /\ \A i \in SeatedPlanRows : \A j \in SeatedPlanRows :
           LET a == seating_plan_csv.rows[i]
               b == seating_plan_csv.rows[j]
           IN (/\ i # j
               /\ a.Assigned_Floor = b.Assigned_Floor
               /\ a.Assigned_Table = b.Assigned_Table)
                  => RelativeSeat(a.Assigned_Seat) # RelativeSeat(b.Assigned_Seat)
    /\ response.kind = "html" =>
           \A i \in SeatedPlanRows :
               LET r == seating_plan_csv.rows[i]
                   drawn == {k \in DOMAIN response.diagrams :
                                response.diagrams[k].ID = r.ID}
               IN /\ Cardinality(drawn) = 1
                  /\ \A k \in drawn :
                         /\ response.diagrams[k].floor = r.Assigned_Floor
                         /\ response.diagrams[k].table = r.Assigned_Table
                         /\ response.diagrams[k].seat_num
                                = RelativeSeat(r.Assigned_Seat)

\* The assignment that marks every employee Offsite: emp_offsite is 1 and
\* every floor, seat and on-site variable is 0.
AllOffsite ==
    [e \in Range(employees) |->
        [fl |-> [f \in DOMAIN floors |->
                    [emp_floor |-> 0,
                     emp_seat |-> 0,
                     emp_seat_bool |-> [x \in 1..floors[f] |-> 0]]],
         emp_offsite |-> 1,
         on_site |-> 0]]

\* C25: for every roster with unique ids, every floor configuration and
\* every max_dept_percent, the all-Offsite assignment satisfies every
\* constraint of the model built for the call, and a call that ends
\* Infeasible ended with the solver out of time (status UNKNOWN), never with
\* the constraints found unsatisfiable.
C25_AllOffsiteFeasible ==
    (pc # "Unsolved" /\ UniqueIds(employees_csv)) =>
        /\ AllOffsite \in Feasible
        /\ pc = "Infeasible" => status = "UNKNOWN"

\* A call on three employees, two floors and the 0.6 cap that ended
\* Infeasible although marking everybody Offsite was feasible.
C25_Witness ==
    /\ pc = "Infeasible"
    /\ UniqueIds(employees_csv)
    /\ Len(employees) = 3
    /\ floors = <<1, 1>>
    /\ max_dept_percent = MAX_DEPT_PERCENT
    /\ AllOffsite \in Feasible

\* Capacity of the largest floor (0 without floors).
LargestFloor ==
    IF floors = << >> THEN 0
    ELSE CHOOSE c \in Range(floors) : \A x \in Range(floors) : x <= c

\* C26: in every Solved outcome the on-site rows of any department number
\* at most the capacity of the largest floor, also when the department cap
\* floor(max_dept_percent * |d|) and the total capacity are larger.
C26_DeptWithinLargestFloor ==
    pc = "Solved" =>
        \A dept \in Depts :
            Cardinality(OnSiteOfDept(OutputRows, dept)) <= LargestFloor

\* Two floors of one seat and a department of at least two with cap 1.0:
\* the department cap and the total capacity both exceed the largest
\* floor, and the department fills one floor.
C26_Witness ==
    /\ pc = "Solved"
    /\ floors = <<1, 1>>
    /\ max_dept_percent = 10
    /\ UniqueIds(employees_csv)
    /\ \E dept \in Depts :
           /\ MaxOnSite(max_dept_percent,
                        Cardinality(RosterDept(employees_csv, dept))) > LargestFloor
           /\ TotalSeats(floors) > LargestFloor
           /\ Cardinality(OnSiteOfDept(OutputRows, dept)) = LargestFloor

====
